---- MODULE Spec2Model ----
(***************************************************************************)
(* State-machine model of daily-steps.py: the Garmin login with its token  *)
(* cache and MFA fallback, the one-day fetch, and the per-record           *)
(* reconciliation against the Notion database (query, then create, update  *)
(* or nothing).                                                            *)
(*                                                                         *)
(* Optional (nullable) values are sequences of length at most one:         *)
(* <<>> is Python's None, <<v>> is the value v.  Distances in kilometres   *)
(* rounded to two decimals are kept as integers counting hundredths of a   *)
(* kilometre (6.01 km is 601).                                             *)
(***************************************************************************)
EXTENDS Integers, Sequences, FiniteSets, TLC

\* ------------------------------------------------------------------ bounds
\* longest list of records the source returns for the fetched day
MaxBatch == 2
\* most rows the destination database holds when the first run starts
MaxRows == 1
\* number of times the program is run one after the other
MaxRuns == 2

\* ------------------------------------------------------------ value domains
None == <<>>
Some(v) == <<v>>

Dates == {"2024-05-01", "2024-05-02"}

\* the record of the fetched day, every field present or absent
FullRecords ==
  [calendarDate : {"2024-05-01"},
   totalSteps : {None, Some(0), Some(8000)},
   stepGoal : {None, Some(0), Some(10000)},
   totalDistance : {None, Some(0), Some(6004), Some(6006)}]

\* the records of the lists that hold any number of records
BatchRecords ==
  [calendarDate : Dates,
   totalSteps : {None, Some(8000)},
   stepGoal : {Some(10000)},
   totalDistance : {Some(6006)}]

\* the contents of a row of the database before the first run
RowContents ==
  [Date : {"2024-05-01"},
   ActivityType : {"Walking"},
   TotalSteps : {Some(0), Some(8000)},
   StepGoal : {Some(0), Some(10000)},
   TotalDistanceKm : {Some(0), Some(601)}]
  \cup
  [Date : Dates,
   ActivityType : {"Running"},
   TotalSteps : {Some(8000)},
   StepGoal : {Some(10000)},
   TotalDistanceKm : {Some(601)}]

RECURSIVE SeqsUpTo(_, _)
SeqsUpTo(S, n) ==
  IF n = 0 THEN {<<>>}
  ELSE LET shorter == SeqsUpTo(S, n - 1)
       IN shorter \cup {Append(s, x) : s \in {t \in shorter : Len(t) = n - 1}, x \in S}

\* what the source service holds for the fetched day: normally one record,
\* otherwise any list of at most MaxBatch records
Feeds ==
  {<<r>> : r \in FullRecords} \cup SeqsUpTo(BatchRecords, MaxBatch)

\* a row is its page id and its properties; page ids are positions
WithId(contents, n) ==
  [id |-> n,
   Date |-> contents.Date,
   ActivityType |-> contents.ActivityType,
   TotalSteps |-> contents.TotalSteps,
   StepGoal |-> contents.StepGoal,
   TotalDistanceKm |-> contents.TotalDistanceKm]

Databases ==
  {[n \in 1..Len(s) |-> WithId(s[n], n)] : s \in SeqsUpTo(RowContents, MaxRows)}

VARIABLES
  pc,             \* position of the run in main / login_garmin_with_mfa
  run,            \* number of the current run of the program
  tokenstore,     \* ~/.garminconnect: "empty" or "bundle"
  result1,        \* first component of g.login(): <<>> before, <<"needs_mfa">> or <<"ok">>
  source,         \* what Garmin Connect holds for the fetched day
  daily_steps,    \* main's list of fetched records
  idx,            \* position of the for loop of main in daily_steps (1-based)
  existing_steps, \* result of daily_steps_exist for the current record
  database,       \* rows of the Notion database, in the order queries return them
  error,          \* the call whose exception ended the run, "" when none
  calls,          \* history: every call this run made to a collaborator
  database0,      \* history: the database when this run started
  tokenstore0,    \* history: the token store when this run started
  unique0,        \* history: the database before the first run had no duplicate key
  snapshot,       \* history: the database when the current record was queried
  prevDone        \* history: the previous run completed without error

vars == <<pc, run, tokenstore, result1, source, daily_steps, idx, existing_steps,
          database, error, calls, database0, tokenstore0, unique0, snapshot, prevDone>>

\* ------------------------------------------------------------ pure functions

\* round(total_distance / 1000, 2), in hundredths of a kilometre.  A distance
\* in whole metres ending in 5 is a decimal tie; Python rounds the double
\* nearest to the quotient, which is an exact tie only for the odd multiples
\* of 125 (k/8), and those go to the even neighbour.  The other ties follow
\* the double's representation error; the distances above stay clear of them.
round_km(total_distance) ==
  LET q == total_distance \div 10
      r == total_distance % 10
  IN IF r < 5 THEN q
     ELSE IF r > 5 THEN q + 1
     ELSE IF q % 2 = 0 THEN q ELSE q + 1

\* total_distance = new_steps.get('totalDistance'); None becomes 0
distance_or_zero(steps) ==
  IF steps.totalDistance = None THEN 0 ELSE steps.totalDistance[1]

\* variant: the filter asks for another title than the one the rows carry
daily_steps_exist_other_title(db, activity_date) ==
  LET results == SelectSeq(db, LAMBDA row :
                    row.Date = activity_date /\ row.ActivityType = "Steps")
  IN IF results # <<>> THEN Some(results[1]) ELSE None

daily_steps_exist(db, activity_date) ==
  LET results == SelectSeq(db, LAMBDA row :
                    row.Date = activity_date /\ row.ActivityType = "Walking")
  IN IF results # <<>> THEN Some(results[1]) ELSE None

\* variant: the stored kilometres are compared with the metres of the record
steps_need_update_metres(existing, new_steps) ==
  \/ existing.TotalSteps # new_steps.totalSteps
  \/ existing.StepGoal # new_steps.stepGoal
  \/ existing.TotalDistanceKm # Some(distance_or_zero(new_steps))

\* variant: a missing step count or goal is taken as 0 before comparing
steps_need_update_zero_default(existing, new_steps) ==
  LET or_zero(v) == IF v = None THEN Some(0) ELSE v
  IN \/ existing.TotalSteps # or_zero(new_steps.totalSteps)
     \/ existing.StepGoal # or_zero(new_steps.stepGoal)
     \/ existing.TotalDistanceKm # Some(round_km(distance_or_zero(new_steps)))

steps_need_update(existing, new_steps) ==
  \/ existing.TotalSteps # new_steps.totalSteps
  \/ existing.StepGoal # new_steps.stepGoal
  \/ existing.TotalDistanceKm # Some(round_km(distance_or_zero(new_steps)))

\* variant: the step goal is filled from the step count
update_properties_goal_from_steps(new_steps) ==
  [ActivityType |-> "Walking",
   Date |-> None,
   TotalSteps |-> new_steps.totalSteps,
   StepGoal |-> new_steps.totalSteps,
   TotalDistanceKm |-> Some(round_km(distance_or_zero(new_steps)))]

\* the properties update_daily_steps sends (no Date)
update_properties(new_steps) ==
  [ActivityType |-> "Walking",
   Date |-> None,
   TotalSteps |-> new_steps.totalSteps,
   StepGoal |-> new_steps.stepGoal,
   TotalDistanceKm |-> Some(round_km(distance_or_zero(new_steps)))]

\* variant: the metres are stored as they are, not divided by 1000
create_properties_metres(steps) ==
  [ActivityType |-> "Walking",
   Date |-> Some(steps.calendarDate),
   TotalSteps |-> steps.totalSteps,
   StepGoal |-> steps.stepGoal,
   TotalDistanceKm |-> Some(distance_or_zero(steps) * 100)]

\* variant: the kilometres are cut off after two decimals, not rounded
create_properties_truncating(steps) ==
  [ActivityType |-> "Walking",
   Date |-> Some(steps.calendarDate),
   TotalSteps |-> steps.totalSteps,
   StepGoal |-> steps.stepGoal,
   TotalDistanceKm |-> Some(distance_or_zero(steps) \div 10)]

\* the properties create_daily_steps sends
create_properties(steps) ==
  [ActivityType |-> "Walking",
   Date |-> Some(steps.calendarDate),
   TotalSteps |-> steps.totalSteps,
   StepGoal |-> steps.stepGoal,
   TotalDistanceKm |-> Some(round_km(distance_or_zero(steps)))]

\* client.pages.update: the page with that id takes the properties sent
pages_update(db, page_id, properties) ==
  [n \in 1..Len(db) |->
     IF db[n].id = page_id
     THEN [db[n] EXCEPT !.ActivityType = properties.ActivityType,
                        !.TotalSteps = properties.TotalSteps,
                        !.StepGoal = properties.StepGoal,
                        !.TotalDistanceKm = properties.TotalDistanceKm]
     ELSE db[n]]

\* client.pages.create: a new page with a fresh id and the properties sent
pages_create(db, properties) ==
  Append(db, [id |-> Len(db) + 1,
              Date |-> properties.Date[1],
              ActivityType |-> properties.ActivityType,
              TotalSteps |-> properties.TotalSteps,
              StepGoal |-> properties.StepGoal,
              TotalDistanceKm |-> properties.TotalDistanceKm])

\* ------------------------------------------------------------------ history

\* no two rows of the database share a date and the activity type "Walking"
Unique(db) ==
  \A m, n \in 1..Len(db) :
     (db[m].Date = db[n].Date /\ db[m].ActivityType = "Walking"
        /\ db[n].ActivityType = "Walking") => m = n

Call(op, k, ok, date, result, page_id, properties) ==
  [op |-> op, k |-> k, ok |-> ok, date |-> date, result |-> result,
   page_id |-> page_id, properties |-> properties]

Plain(op, ok) == Call(op, 0, ok, None, None, 0, None)

\* ---------------------------------------------------------------------- Init
Init ==
  /\ pc = "token_login"
  /\ run = 1
  /\ tokenstore \in {"empty", "bundle"}
  /\ result1 = None
  /\ source \in Feeds
  /\ daily_steps = <<>>
  /\ idx = 1
  /\ existing_steps = None
  /\ database \in Databases
  /\ error = ""
  /\ calls = <<>>
  /\ database0 = database
  /\ tokenstore0 = tokenstore
  /\ unique0 = Unique(database)
  /\ snapshot = database
  /\ prevDone = FALSE

\* -------------------------------------------------- login_garmin_with_mfa

\* variant: the tokens are dumped again after a login from the token store
TokenLogin_then_dump ==
  /\ pc = "token_login"
  /\ \E ok \in BOOLEAN :
       /\ ok => tokenstore = "bundle"
       /\ calls' = Append(calls, Plain("token_login", ok))
       /\ pc' = IF ok THEN "dump" ELSE "login"
  /\ UNCHANGED <<run, tokenstore, result1, source, daily_steps, idx, existing_steps,
                 database, error, database0, tokenstore0, unique0, snapshot, prevDone>>

\* g.login(tokenstore): succeeds only from a stored bundle the service still
\* accepts; any exception is swallowed and leads to the credential login
TokenLogin ==
  /\ pc = "token_login"
  /\ \E ok \in BOOLEAN :
       /\ ok => tokenstore = "bundle"
       /\ calls' = Append(calls, Plain("token_login", ok))
       /\ pc' = IF ok THEN "fetch" ELSE "login"
  /\ UNCHANGED <<run, tokenstore, result1, source, daily_steps, idx, existing_steps,
                 database, error, database0, tokenstore0, unique0, snapshot, prevDone>>

\* variant: the answer "needs_mfa" is not looked at
CredentialLogin_ignoring_mfa ==
  /\ pc = "login"
  /\ \E outcome \in {"needs_mfa", "ok", "raise"} :
       /\ calls' = Append(calls, Plain("login", outcome # "raise"))
       /\ IF outcome = "raise"
          THEN /\ pc' = "failed"
               /\ error' = "login"
               /\ UNCHANGED result1
          ELSE /\ pc' = "dump"
               /\ result1' = Some(outcome)
               /\ UNCHANGED error
  /\ UNCHANGED <<run, tokenstore, source, daily_steps, idx, existing_steps,
                 database, database0, tokenstore0, unique0, snapshot, prevDone>>

\* result1, result2 = g.login() with return_on_mfa=True
CredentialLogin ==
  /\ pc = "login"
  /\ \E outcome \in {"needs_mfa", "ok", "raise"} :
       /\ calls' = Append(calls, Plain("login", outcome # "raise"))
       /\ IF outcome = "raise"
          THEN /\ pc' = "failed"
               /\ error' = "login"
               /\ UNCHANGED result1
          ELSE /\ pc' = IF outcome = "needs_mfa" THEN "input" ELSE "dump"
               /\ result1' = Some(outcome)
               /\ UNCHANGED error
  /\ UNCHANGED <<run, tokenstore, source, daily_steps, idx, existing_steps,
                 database, database0, tokenstore0, unique0, snapshot, prevDone>>

\* mfa_code = input(...)
PromptMfa ==
  /\ pc = "input"
  /\ calls' = Append(calls, Plain("input", TRUE))
  /\ pc' = "resume_login"
  /\ UNCHANGED <<run, tokenstore, result1, source, daily_steps, idx, existing_steps,
                 database, error, database0, tokenstore0, unique0, snapshot, prevDone>>

\* variant: an exception of resume_login is swallowed
ResumeLogin_swallowing ==
  /\ pc = "resume_login"
  /\ \E ok \in BOOLEAN :
       /\ calls' = Append(calls, Plain("resume_login", ok))
       /\ pc' = "dump"
  /\ UNCHANGED <<run, tokenstore, result1, source, daily_steps, idx, existing_steps,
                 database, error, database0, tokenstore0, unique0, snapshot, prevDone>>

\* g.resume_login(result2, mfa_code)
ResumeLogin ==
  /\ pc = "resume_login"
  /\ \E ok \in BOOLEAN :
       /\ calls' = Append(calls, Plain("resume_login", ok))
       /\ pc' = IF ok THEN "dump" ELSE "failed"
       /\ error' = IF ok THEN error ELSE "resume_login"
  /\ UNCHANGED <<run, tokenstore, result1, source, daily_steps, idx, existing_steps,
                 database, database0, tokenstore0, unique0, snapshot, prevDone>>

\* g.garth.dump(tokenstore)
DumpTokens ==
  /\ pc = "dump"
  /\ calls' = Append(calls, Plain("dump", TRUE))
  /\ tokenstore' = "bundle"
  /\ pc' = "fetch"
  /\ UNCHANGED <<run, result1, source, daily_steps, idx, existing_steps,
                 database, error, database0, tokenstore0, unique0, snapshot, prevDone>>

\* -------------------------------------------------------------------- main

\* where main goes once the record at position n - 1 is dealt with
AfterRecord(list, n) == IF n > Len(list) THEN "done" ELSE "query"

\* daily_steps = get_all_daily_steps(garmin): the range holds one day
\* (yesterday), so there is one call to garmin.get_daily_steps
get_all_daily_steps ==
  /\ pc = "fetch"
  /\ \E ok \in BOOLEAN :
       /\ calls' = Append(calls, Plain("get_daily_steps", ok))
       /\ IF ok
          THEN /\ daily_steps' = source
               /\ pc' = AfterRecord(source, 1)
               /\ UNCHANGED error
          ELSE /\ pc' = "failed"
               /\ error' = "get_daily_steps"
               /\ UNCHANGED daily_steps
  /\ idx' = 1
  /\ UNCHANGED <<run, tokenstore, result1, source, existing_steps,
                 database, database0, tokenstore0, unique0, snapshot, prevDone>>

\* variant: a failed query is caught and main goes on with the next record
Query_isolating ==
  /\ pc = "query"
  /\ LET steps == daily_steps[idx]
         steps_date == steps.calendarDate
     IN \E ok \in BOOLEAN :
          IF ok
          THEN /\ existing_steps' = daily_steps_exist(database, steps_date)
               /\ calls' = Append(calls, Call("query", idx, TRUE, Some(steps_date),
                                               daily_steps_exist(database, steps_date),
                                               0, None))
               /\ snapshot' = database
               /\ pc' = "write"
               /\ UNCHANGED <<error, idx>>
          ELSE /\ calls' = Append(calls, Call("query", idx, FALSE, Some(steps_date),
                                               None, 0, None))
               /\ idx' = idx + 1
               /\ pc' = AfterRecord(daily_steps, idx + 1)
               /\ UNCHANGED <<error, existing_steps, snapshot>>
  /\ UNCHANGED <<run, tokenstore, result1, source, daily_steps,
                 database, database0, tokenstore0, unique0, prevDone>>

\* existing_steps = daily_steps_exist(client, database_id, steps_date)
Query ==
  /\ pc = "query"
  /\ LET steps == daily_steps[idx]
         steps_date == steps.calendarDate
     IN \E ok \in BOOLEAN :
          IF ok
          THEN /\ existing_steps' = daily_steps_exist(database, steps_date)
               /\ calls' = Append(calls, Call("query", idx, TRUE, Some(steps_date),
                                               daily_steps_exist(database, steps_date),
                                               0, None))
               /\ snapshot' = database
               /\ pc' = "write"
               /\ UNCHANGED error
          ELSE /\ calls' = Append(calls, Call("query", idx, FALSE, Some(steps_date),
                                               None, 0, None))
               /\ pc' = "failed"
               /\ error' = "query"
               /\ UNCHANGED <<existing_steps, snapshot>>
  /\ UNCHANGED <<run, tokenstore, result1, source, daily_steps, idx,
                 database, database0, tokenstore0, unique0, prevDone>>

\* if existing_steps: if steps_need_update(...): update_daily_steps(...)
Update ==
  /\ pc = "write"
  /\ existing_steps # None
  /\ steps_need_update(existing_steps[1], daily_steps[idx])
  /\ LET page_id == existing_steps[1].id
         properties == update_properties(daily_steps[idx])
     IN \E ok \in BOOLEAN :
          /\ calls' = Append(calls, Call("update", idx, ok, None, None,
                                          page_id, Some(properties)))
          /\ IF ok
             THEN /\ database' = pages_update(database, page_id, properties)
                  /\ idx' = idx + 1
                  /\ pc' = AfterRecord(daily_steps, idx + 1)
                  /\ UNCHANGED error
             ELSE /\ pc' = "failed"
                  /\ error' = "update"
                  /\ UNCHANGED <<database, idx>>
  /\ UNCHANGED <<run, tokenstore, result1, source, daily_steps, existing_steps,
                 database0, tokenstore0, unique0, snapshot, prevDone>>

\* the row exists and nothing differs: no call, on to the next record
Skip ==
  /\ pc = "write"
  /\ existing_steps # None
  /\ ~steps_need_update(existing_steps[1], daily_steps[idx])
  /\ idx' = idx + 1
  /\ pc' = AfterRecord(daily_steps, idx + 1)
  /\ UNCHANGED <<run, tokenstore, result1, source, daily_steps, existing_steps,
                 database, error, calls, database0, tokenstore0, unique0, snapshot, prevDone>>

\* else: create_daily_steps(client, database_id, steps)
Create ==
  /\ pc = "write"
  /\ existing_steps = None
  /\ LET properties == create_properties(daily_steps[idx])
     IN \E ok \in BOOLEAN :
          /\ calls' = Append(calls, Call("create", idx, ok, None, None,
                                          0, Some(properties)))
          /\ IF ok
             THEN /\ database' = pages_create(database, properties)
                  /\ idx' = idx + 1
                  /\ pc' = AfterRecord(daily_steps, idx + 1)
                  /\ UNCHANGED error
             ELSE /\ pc' = "failed"
                  /\ error' = "create"
                  /\ UNCHANGED <<database, idx>>
  /\ UNCHANGED <<run, tokenstore, result1, source, daily_steps, existing_steps,
                 database0, tokenstore0, unique0, snapshot, prevDone>>

\* if __name__ == '__main__': main() -- the program is started again; the
\* token store and the two services keep what they hold
Rerun ==
  /\ pc \in {"done", "failed"}
  /\ run < MaxRuns
  /\ run' = run + 1
  /\ prevDone' = (pc = "done")
  /\ pc' = "token_login"
  /\ result1' = None
  /\ daily_steps' = <<>>
  /\ idx' = 1
  /\ existing_steps' = None
  /\ error' = ""
  /\ calls' = <<>>
  /\ database0' = database
  /\ snapshot' = database
  /\ tokenstore0' = tokenstore
  /\ UNCHANGED <<tokenstore, source, database, unique0>>

Next ==
  \/ TokenLogin
  \/ CredentialLogin
  \/ PromptMfa
  \/ ResumeLogin
  \/ DumpTokens
  \/ get_all_daily_steps
  \/ Query
  \/ Update
  \/ Skip
  \/ Create
  \/ Rerun

Spec == Init /\ [][Next]_vars

TypeOK ==
  /\ pc \in {"token_login", "login", "input", "resume_login", "dump", "fetch",
              "query", "write", "done", "failed"}
  /\ run \in 1..MaxRuns
  /\ idx \in 1..(Len(daily_steps) + 1)

\* =================================================================== claims

\* the calls of this run with one of the given names, in order
CallsOf(ops) == SelectSeq(calls, LAMBDA c : c.op \in ops)
Count(op) == Len(CallsOf({op}))
Writes == CallsOf({"create", "update"})
WritesFor(k) == SelectSeq(calls, LAMBDA c : c.op \in {"create", "update"} /\ c.k = k)
QueryFor(k) == SelectSeq(calls, LAMBDA c : c.op = "query" /\ c.k = k)[1]

\* the record at position k has been reconciled: main moved past it, or its
\* write raised
Settled(k) ==
  \/ k < idx
  \/ k = idx /\ pc = "failed" /\ error \in {"create", "update"}
SettledRecords == {k \in 1..Len(daily_steps) : Settled(k)}

\* the record at position k has just been reconciled and nothing happened since
JustDone(k) == k = idx - 1 /\ pc \in {"query", "done"}

\* round(d / 1000, 2) of the record's distance, 0 when it is absent
ExpectedKm(rec) ==
  round_km(IF rec.totalDistance = None THEN 0 ELSE rec.totalDistance[1])

RowDiffers(row, rec) ==
  \/ row.TotalSteps # rec.totalSteps
  \/ row.StepGoal # rec.stepGoal
  \/ row.TotalDistanceKm # Some(ExpectedKm(rec))

\* C1: a record whose query returns no row gets exactly one create and no
\* update; the create carries Date, Total Steps, Step Goal, Activity Type
\* "Walking" and the rounded distance (0 for an absent distance), and the new
\* row holds these values.
C1_CreateWhenAbsent ==
  \A k \in SettledRecords :
     LET rec == daily_steps[k]
         w == WritesFor(k)
     IN QueryFor(k).result = None =>
          /\ Len(w) = 1
          /\ w[1].op = "create"
          /\ w[1].properties =
                Some([ActivityType |-> "Walking",
                      Date |-> Some(rec.calendarDate),
                      TotalSteps |-> rec.totalSteps,
                      StepGoal |-> rec.stepGoal,
                      TotalDistanceKm |-> Some(ExpectedKm(rec))])
          /\ rec.totalDistance = None => w[1].properties[1].TotalDistanceKm = Some(0)
          /\ JustDone(k) =>
                LET row == database[Len(database)]
                IN /\ Len(database) = Len(snapshot) + 1
                   /\ row.Date = rec.calendarDate
                   /\ row.ActivityType = "Walking"
                   /\ row.TotalSteps = rec.totalSteps
                   /\ row.StepGoal = rec.stepGoal
                   /\ row.TotalDistanceKm = Some(ExpectedKm(rec))

\* a record without distance was created and its row stores 0.0 km
C1_Witness ==
  /\ pc = "done"
  /\ JustDone(1)
  /\ QueryFor(1).result = None
  /\ daily_steps[1].totalDistance = None
  /\ database[Len(database)].TotalDistanceKm = Some(0)

\* C2: a record whose matching row differs in Total Steps, Step Goal or the
\* rounded distance gets exactly one update on that row's id and no create;
\* the update carries the record's value of every tracked field and the
\* activity type "Walking", and the row then holds them.
C2_UpdateWhenDifferent ==
  \A k \in SettledRecords :
     LET rec == daily_steps[k]
         w == WritesFor(k)
         found == QueryFor(k).result
     IN (found # None /\ RowDiffers(found[1], rec)) =>
          /\ Len(w) = 1
          /\ w[1].op = "update"
          /\ w[1].page_id = found[1].id
          /\ w[1].properties =
                Some([ActivityType |-> "Walking",
                      Date |-> None,
                      TotalSteps |-> rec.totalSteps,
                      StepGoal |-> rec.stepGoal,
                      TotalDistanceKm |-> Some(ExpectedKm(rec))])
          /\ JustDone(k) =>
                /\ Len(database) = Len(snapshot)
                /\ \A n \in 1..Len(database) :
                      IF database[n].id = found[1].id
                      THEN /\ database[n].TotalSteps = rec.totalSteps
                           /\ database[n].StepGoal = rec.stepGoal
                           /\ database[n].TotalDistanceKm = Some(ExpectedKm(rec))
                           /\ database[n].ActivityType = "Walking"
                           /\ database[n].Date = snapshot[n].Date
                      ELSE database[n] = snapshot[n]

\* a row that differed in Total Steps only was updated
C2_Witness ==
  /\ pc = "done"
  /\ JustDone(1)
  /\ QueryFor(1).result # None
  /\ QueryFor(1).result[1].TotalSteps # daily_steps[1].totalSteps
  /\ QueryFor(1).result[1].StepGoal = daily_steps[1].stepGoal
  /\ QueryFor(1).result[1].TotalDistanceKm = Some(ExpectedKm(daily_steps[1]))
  /\ Len(WritesFor(1)) = 1

\* C3: a record whose matching row holds the same Total Steps, Step Goal and
\* rounded distance gets no create and no update, and the database is left as
\* it was.
C3_NoWriteWhenEqual ==
  \A k \in SettledRecords :
     LET rec == daily_steps[k]
         found == QueryFor(k).result
     IN (found # None /\ ~RowDiffers(found[1], rec)) =>
          /\ WritesFor(k) = <<>>
          /\ JustDone(k) => database = snapshot

\* an equal row, with a distance that rounding changes, was left alone
C3_Witness ==
  /\ pc = "done"
  /\ JustDone(1)
  /\ QueryFor(1).result # None
  /\ daily_steps[1].totalDistance = Some(6006)
  /\ ~RowDiffers(QueryFor(1).result[1], daily_steps[1])
  /\ database = snapshot

\* C10: the staleness check treats nulls asymmetrically: a null totalSteps or
\* stepGoal against a stored 0 is a difference and gives one update that
\* writes null for that field; a null totalDistance against a stored 0.0, the
\* other fields equal, gives no write.
C10_NullAsymmetry ==
  \A k \in SettledRecords :
     LET rec == daily_steps[k]
         w == WritesFor(k)
         found == QueryFor(k).result
     IN found # None =>
          /\ (rec.totalSteps = None /\ found[1].TotalSteps = Some(0)) =>
                /\ Len(w) = 1
                /\ w[1].op = "update"
                /\ w[1].properties[1].TotalSteps = None
          /\ (rec.stepGoal = None /\ found[1].StepGoal = Some(0)) =>
                /\ Len(w) = 1
                /\ w[1].op = "update"
                /\ w[1].properties[1].StepGoal = None
          /\ (/\ rec.totalDistance = None
              /\ found[1].TotalDistanceKm = Some(0)
              /\ found[1].TotalSteps = rec.totalSteps
              /\ found[1].StepGoal = rec.stepGoal) => w = <<>>

\* a null totalSteps met a stored 0 while the null distance met a stored 0.0
C10_Witness ==
  /\ pc = "done"
  /\ JustDone(1)
  /\ QueryFor(1).result # None
  /\ daily_steps[1].totalSteps = None
  /\ daily_steps[1].totalDistance = None
  /\ QueryFor(1).result[1].TotalSteps = Some(0)
  /\ QueryFor(1).result[1].TotalDistanceKm = Some(0)
  /\ Len(WritesFor(1)) = 1
  /\ database[QueryFor(1).result[1].id].TotalSteps = None

\* no two records of the list share a date while differing in a compared value
NoConflictingDates(list) ==
  \A m, n \in 1..Len(list) :
     list[m].calendarDate = list[n].calendarDate =>
        /\ list[m].totalSteps = list[n].totalSteps
        /\ list[m].stepGoal = list[n].stepGoal
        /\ ExpectedKm(list[m]) = ExpectedKm(list[n])

\* C4 as stated: when the previous pass completed without error, reconciling
\* the same batch again issues no create and no update, for any batch.
C4_IdempotentAnyBatch ==
  (run > 1 /\ prevDone) => Writes = <<>>

\* C4 amended: the same, for batches in which no two records share a
\* calendarDate while differing in totalSteps, stepGoal or rounded distance.
C4_IdempotentPass ==
  (run > 1 /\ prevDone /\ NoConflictingDates(source)) => Writes = <<>>

\* a second pass over a batch with a null field ran to its end after a pass
\* that created a row
C4_Witness ==
  /\ run > 1
  /\ prevDone
  /\ pc = "done"
  /\ Len(daily_steps) = MaxBatch
  /\ NoConflictingDates(source)
  /\ \E k \in 1..Len(daily_steps) : daily_steps[k].totalSteps = None
  /\ Len(database) > MaxRows

\* C5: from a database with at most one row per (date, "Walking"), every
\* reachable database has at most one row per (date, "Walking"), and a create
\* is only issued for a record whose query matched no row.
C5_Uniqueness ==
  /\ unique0 => Unique(database)
  /\ \A n \in 1..Len(calls) :
        calls[n].op = "create" =>
           /\ QueryFor(calls[n].k).ok
           /\ QueryFor(calls[n].k).result = None
           /\ calls[n - 1].op = "query"
           /\ calls[n - 1].k = calls[n].k
           /\ n = Len(calls) =>
                 \A m \in 1..Len(snapshot) :
                    ~(/\ snapshot[m].Date = daily_steps[calls[n].k].calendarDate
                      /\ snapshot[m].ActivityType = "Walking")

\* a batch with two records of one date was reconciled into one row
C5_Witness ==
  /\ unique0
  /\ pc = "done"
  /\ Len(daily_steps) = 2
  /\ daily_steps[1].calendarDate = daily_steps[2].calendarDate
  /\ Count("create") = 1
  /\ WritesFor(1) # <<>>
  /\ WritesFor(1)[1].op = "create"

\* position in calls of the first call with that name, 0 when there is none
RECURSIVE PosFrom(_, _)
PosFrom(op, n) ==
  IF n > Len(calls) THEN 0
  ELSE IF calls[n].op = op THEN n
  ELSE PosFrom(op, n + 1)
Pos(op) == PosFrom(op, 1)

TokenLoginSucceeded == calls # <<>> /\ calls[1].op = "token_login" /\ calls[1].ok
TokenLoginFailed == calls # <<>> /\ calls[1].op = "token_login" /\ ~calls[1].ok

\* login_garmin_with_mfa has returned a session to main
LoggedIn ==
  \/ pc \in {"fetch", "query", "write", "done"}
  \/ pc = "failed" /\ error \in {"get_daily_steps", "query", "create", "update"}

\* some step of the program other than a new start can be taken
RunCanContinue ==
  ENABLED (\/ TokenLogin \/ CredentialLogin \/ PromptMfa \/ ResumeLogin
           \/ DumpTokens \/ get_all_daily_steps \/ Query \/ Update \/ Skip
           \/ Create)

\* C6: when the login from the stored token bundle succeeds, the session is
\* returned at once: no prompt, no credential login, no write of the token
\* store; the next call of the run is the fetch.
C6_CachedPath ==
  TokenLoginSucceeded =>
     /\ LoggedIn
     /\ Count("login") = 0
     /\ Count("input") = 0
     /\ Count("resume_login") = 0
     /\ Count("dump") = 0
     /\ tokenstore = tokenstore0
     /\ Len(calls) > 1 => calls[2].op = "get_daily_steps"

\* a run that logged in from the stored bundle reconciled a record
C6_Witness ==
  /\ TokenLoginSucceeded
  /\ pc = "done"
  /\ Writes # <<>>

\* C7: when the login from the stored token bundle fails, the failure is
\* swallowed and the credential login is attempted, once.  In a login that
\* completes: if the credential login asked for a second factor there is
\* exactly one prompt, and the prompt and the resumed login come before the
\* write of the token bundle; if it did not there is no prompt; in both cases
\* the token bundle is written exactly once.
C7_FallbackPath ==
  TokenLoginFailed =>
     /\ error # "token_login"
     /\ Len(calls) = 1 => pc = "login"
     /\ Len(calls) > 1 => calls[2].op = "login"
     /\ Count("login") <= 1
     /\ Count("input") <= 1
     /\ Count("dump") <= 1
     /\ Count("dump") = 1 =>
           /\ tokenstore = "bundle"
           /\ result1 = Some("needs_mfa") =>
                 /\ Count("input") = 1
                 /\ Count("resume_login") = 1
                 /\ Pos("login") < Pos("input")
                 /\ Pos("input") < Pos("resume_login")
                 /\ Pos("resume_login") < Pos("dump")
                 /\ calls[Pos("resume_login")].ok
           /\ result1 = Some("ok") =>
                 /\ Count("input") = 0
                 /\ Count("resume_login") = 0
                 /\ Pos("login") < Pos("dump")
     /\ LoggedIn => Count("dump") = 1
     /\ (result1 = Some("ok") /\ pc # "dump") => LoggedIn
     /\ (Count("resume_login") = 1 /\ calls[Pos("resume_login")].ok /\ pc # "dump")
           => LoggedIn

\* a fallback login with a second factor was completed and went on to fetch
C7_Witness ==
  /\ TokenLoginFailed
  /\ result1 = Some("needs_mfa")
  /\ tokenstore0 = "empty"
  /\ tokenstore = "bundle"
  /\ pc = "fetch"

\* C8: when the credential login or the resumed login fails, the run ends with
\* that error: the login is not retried (one credential login, at most one
\* prompt), no token bundle is written and the token store is as it was, and
\* the run makes no fetch, query, create or update.
C8_LoginFailureFatal ==
  (\E n \in 1..Len(calls) : calls[n].op \in {"login", "resume_login"} /\ ~calls[n].ok) =>
     /\ pc = "failed"
     /\ error \in {"login", "resume_login"}
     /\ ~RunCanContinue
     /\ Count("login") = 1
     /\ Count("input") <= 1
     /\ Count("resume_login") <= 1
     /\ calls[Len(calls)].op = error
     /\ ~calls[Len(calls)].ok
     /\ Count("dump") = 0
     /\ tokenstore = tokenstore0
     /\ CallsOf({"get_daily_steps", "query", "create", "update"}) = <<>>
     /\ daily_steps = <<>>
     /\ database = database0

\* a wrong one-time code ended a run that had no token bundle
C8_Witness ==
  /\ pc = "failed"
  /\ error = "resume_login"
  /\ tokenstore = "empty"
  /\ Count("input") = 1

\* the database after the successful writes among the first n calls
RECURSIVE Replay(_, _)
Replay(db, n) ==
  IF n = 0 THEN db
  ELSE LET before == Replay(db, n - 1)
           c == calls[n]
       IN IF c.op = "create" /\ c.ok THEN pages_create(before, c.properties[1])
          ELSE IF c.op = "update" /\ c.ok
               THEN pages_update(before, c.page_id, c.properties[1])
          ELSE before

\* C9: records are reconciled one after the other: the query of a record
\* comes before its write, a record gets at most one write, and a record is
\* queried only when the record before it is finished.  A failed query or
\* write ends the run: no later call is made, and the writes made before it
\* are in the database.
C9_SequentialAbort ==
  LET rc == CallsOf({"query", "create", "update"})
  IN /\ \A n \in 1..Len(rc) :
          /\ rc[n].op = "query" =>
                IF n = 1 THEN rc[n].k = 1
                ELSE /\ rc[n - 1].ok
                     /\ rc[n - 1].k = rc[n].k - 1
          /\ rc[n].op \in {"create", "update"} =>
                /\ n > 1
                /\ rc[n - 1].op = "query"
                /\ rc[n - 1].ok
                /\ rc[n - 1].k = rc[n].k
     /\ \A k \in 1..Len(daily_steps) : Len(WritesFor(k)) <= 1
     /\ \A n \in 1..Len(calls) :
          (~calls[n].ok /\ calls[n].op # "token_login") =>
             /\ n = Len(calls)
             /\ pc = "failed"
             /\ error = calls[n].op
     /\ database = Replay(database0, Len(calls))
     /\ (pc = "failed" /\ error \in {"query", "create", "update"}) =>
          /\ ~RunCanContinue
          /\ ~calls[Len(calls)].ok
          /\ calls[Len(calls)].k = idx
          /\ \A n \in 1..Len(calls) : calls[n].k <= idx

\* the query of the second record failed after the first record was written
C9_Witness ==
  /\ pc = "failed"
  /\ error = "query"
  /\ idx = 2
  /\ Len(daily_steps) >= idx
  /\ Len(WritesFor(1)) = 1
  /\ database # database0

====
